---- MODULE Spec2Model ----
(***************************************************************************)
(* Track insertion / removal and identifier remapping of buildable's       *)
(* LiveSet (src/src/buildable/live_set.py).                                *)
(*                                                                         *)
(* A document (a Live set) is a record                                     *)
(*   [top, tracks, sendsPre, next, main]                                   *)
(* top      : the tags of the children of <LiveSet>, in document order     *)
(* tracks   : the children of <Tracks>, in document order                  *)
(* sendsPre : the children of <SendsPre>, each [id, value]                 *)
(* next     : the Value of <NextPointeeId>                                 *)
(* main     : the <MainTrack> element, or NoMain when find() gives None    *)
(*                                                                         *)
(* A track element is a record                                             *)
(*   [tag, id, group, linked, routing, pointees, refs, sends, node]        *)
(* id       : the Id attribute (mixer tracks)                              *)
(* group    : TrackGroupId, linked : LinkedTrackGroupId                    *)
(* routing  : the four routing targets, each a sequence of tokens          *)
(* pointees : Ids of the pointee definitions outside the send holders      *)
(* refs     : Values of the PointeeId elements, in document order          *)
(* sends    : the TrackSendHolder children of Mixer/Sends                  *)
(* node     : identity of the element object; 0 for an element that is     *)
(*            shared with no source set (a fresh copy, or the              *)
(*            destination's own)                                           *)
(***************************************************************************)
EXTENDS Integers, Sequences, FiniteSets, TLC

\* ------------------------------------------------------------------ bounds
MaxCalls == 1
MaxTracks == 5
MaxBatch == 2
MaxLeaves == 2

\* --------------------------------------------------------- generic helpers
Range(s) == {s[i] : i \in DOMAIN s}

SetMax(S) == CHOOSE x \in S : \A y \in S : y <= x

SetMin(S) == CHOOSE x \in S : \A y \in S : x <= y

\* The place list.insert(index, e) puts e at, for an index >= 0: an index
\* past the end appends.
InsertionPoint(s, index) == IF index > Len(s) THEN Len(s) ELSE index

\* list.insert(index, e) with a 0-based index >= 0
InsertAt(s, index, e) ==
    SubSeq(s, 1, InsertionPoint(s, index)) \o <<e>>
    \o SubSeq(s, InsertionPoint(s, index) + 1, Len(s))

\* del list[index] with a 0-based index
RemoveAt(s, index) ==
    SubSeq(s, 1, index) \o SubSeq(s, index + 2, Len(s))

RECURSIVE Flatten(_)
Flatten(ss) == IF ss = <<>> THEN <<>> ELSE Head(ss) \o Flatten(Tail(ss))

\* -------------------------------------------------------------- constants
ReturnTag == "ReturnTrack"
PrimaryTags == {"AudioTrack", "GroupTrack", "MidiTrack"}
MainTag == "MainTrack"
MinValueStr == "0.0003162277571"

NoError == "none"
\* The exceptions of live_set.py, by class and message.
ErrIndex == "ValueError: index"
ErrUnknownPointee == "ValueError: Unknown mapping to pointee ID"
ErrReturnGroup == "ValueError: Return track has a group ID"
ErrUnknownGroup == "ValueError: Track is in an unrecognized group"
ErrLinked == "NotImplementedError: Linked track groups are not yet supported"
ErrNoMain == "ValueError: Live set has no main track"
ErrAssertion == "AssertionError"
ErrIndexError == "IndexError"
NoMain == [tag |-> "None"]

\* ------------------------------------------------------------------- Send
\* Send.create: a blank send, at the minimum value, with the two given
\* pointee ids.
SendCreate(automation_target_id, modulation_target_id) ==
    [manual |-> MinValueStr,
     auto   |-> automation_target_id,
     mod    |-> modulation_target_id]

Holder(id, send, enabled_by_user) ==
    [id |-> id, enabled |-> enabled_by_user, send |-> send]

\* ------------------------------------------------------------------ Sends
\* The positions (0-based) at which the renumbering loop of insert_send
\* stops: i in index+1 .. len-1 with a holder whose Id is not i-1.
InsertSendBadPositions(holders, index) ==
    {i \in (index + 1)..(Len(holders) - 1) : holders[i + 1].id # i - 1}

\* The renumbering loop of insert_send: the holders after `index` get their
\* position as Id, up to the first bad position, where the loop raises.
RenumberHolders(holders, index, bad) ==
    [err   |-> IF bad = {} THEN NoError ELSE ErrAssertion,
     sends |-> [p \in 1..Len(holders) |->
                   IF p - 1 > index /\ \A b \in bad : p - 1 < b
                   THEN [holders[p] EXCEPT !.id = p - 1]
                   ELSE holders[p]]]

\* An insert_send that leaves the holders after the new one as they are.
InsertSendNoRenumber(sends, index, send, enabled_by_user) ==
    [err   |-> NoError,
     sends |-> InsertAt(sends, index, Holder(index, send, enabled_by_user))]

\* Sends.insert_send(index, send, enabled_by_user): the new holder, with Id
\* index, goes in at index; then the loop over the holders after it.
InsertSend(sends, index, send, enabled_by_user) ==
    RenumberHolders(
        InsertAt(sends, index, Holder(index, send, enabled_by_user)), index,
        InsertSendBadPositions(
            InsertAt(sends, index, Holder(index, send, enabled_by_user)), index))

\* Sends.delete_send(index): remove the holder and renumber all the rest.
DeleteSend(sends, index) ==
    [p \in 1..(Len(sends) - 1) |->
        [RemoveAt(sends, index)[p] EXCEPT !.id = p - 1]]

\* while len(sends.track_send_holders) > 0: sends.delete_send(0)
RECURSIVE DeleteAllSends(_)
DeleteAllSends(sends) ==
    IF Len(sends) > 0 THEN DeleteAllSends(DeleteSend(sends, 0)) ELSE sends

\* --------------------------------------------------------------- SendsPre
\* The loop of insert_send_pre_bool for i = from .. len-1: it reads and
\* writes the entry at `index` (the new one) on every round.
RECURSIVE SendPreRenumber(_, _, _)
SendPreRenumber(bools, index, from) ==
    IF from > Len(bools) - 1
    THEN [err |-> NoError, bools |-> bools]
    ELSE IF bools[index + 1].id # from - 1
         THEN [err |-> ErrAssertion, bools |-> bools]
         ELSE SendPreRenumber([bools EXCEPT ![index + 1].id = from],
                              index, from + 1)

\* An insert_send_pre_bool that puts the new entry first, whatever the index.
InsertSendPreBoolFirst(bools, index, value) ==
    SendPreRenumber(InsertAt(bools, 0, [id |-> 0, value |-> value]), 0, 1)

\* SendsPre.insert_send_pre_bool(index, value)
InsertSendPreBool(bools, index, value) ==
    SendPreRenumber(InsertAt(bools, index, [id |-> index, value |-> value]),
                    index, index + 1)

\* ----------------------------------------------------------- document views
\* 1-based positions, in document order, of the children of <Tracks> that
\* are (isReturn) or are not return tracks.
TrackPositions(doc, isReturn) ==
    SelectSeq([i \in 1..Len(doc.tracks) |-> i],
              LAMBDA i : (doc.tracks[i].tag = ReturnTag) = isReturn)

\* LiveSet.primary_tracks
PrimaryTracksOf(doc) ==
    LET pos == TrackPositions(doc, FALSE)
    IN  [i \in 1..Len(pos) |-> doc.tracks[pos[i]]]

\* LiveSet.return_tracks: each return track with its derived context, the
\* index of its send column and its value in SendsPre.
ReturnTracksOf(doc) ==
    LET pos == TrackPositions(doc, TRUE)
    IN  [i \in 1..Len(pos) |->
            [element    |-> doc.tracks[pos[i]],
             send_index |-> i - 1,
             send_pre   |-> doc.sendsPre[i].value]]

NumPrimary(doc) == Len(TrackPositions(doc, FALSE))

NumReturn(doc) == Len(TrackPositions(doc, TRUE))

\* [*self.primary_tracks, *self.return_tracks], as positions in doc.tracks
MixerPositions(doc) == TrackPositions(doc, FALSE) \o TrackPositions(doc, TRUE)

\* ---------------------------------------------------------------- pointees
\* The Ids of the pointee definitions of an element, in the order iter()
\* visits them: the element's own definitions, then for every send holder its
\* AutomationTarget and its ModulationTarget.
DefIds(e) ==
    e.pointees \o
    Flatten([j \in 1..Len(e.sends) |-> <<e.sends[j].send.auto, e.sends[j].send.mod>>])

\* Number of definitions in the elements before the k-th.
RECURSIVE DefsBefore(_, _)
DefsBefore(elements, k) ==
    IF k <= 1 THEN 0
    ELSE DefsBefore(elements, k - 1) + Len(DefIds(elements[k - 1]))

\* The old Id -> new Id entries the first loop of _update_pointee_ids leaves
\* for the old Ids allOld, visited in this order: the n-th definition gets
\* next + n - 1, and a later definition with the same old Id overwrites the
\* entry.
LastReplacements(next, allOld) ==
    [o \in Range(allOld) |->
        next + SetMax({n \in 1..Len(allOld) : allOld[n] = o}) - 1]

\* pointee_id_replacements after the first loop of _update_pointee_ids
PointeeReplacements(next, elements) ==
    LastReplacements(next,
        Flatten([k \in 1..Len(elements) |-> DefIds(elements[k])]))

\* The PointeeId elements (element k, reference i) whose value is no key of
\* the replacements.
UnknownRefs(elements, repl) ==
    {ki \in UNION {{<<k, i>> : i \in 1..Len(elements[k].refs)}
                      : k \in 1..Len(elements)} :
        elements[ki[1]].refs[ki[2]] \notin DOMAIN repl}

\* The k-th element after _update_pointee_ids: its definitions numbered from
\* base on, and its references rewritten as far as the second loop came
\* before it raised at the first of badRefs.
RemappedElement(e, k, base, repl, badRefs) ==
    [e EXCEPT
       !.pointees = [i \in 1..Len(e.pointees) |-> base + i - 1],
       !.sends = [j \in 1..Len(e.sends) |->
           [e.sends[j] EXCEPT
              !.send.auto = base + Len(e.pointees) + 2 * (j - 1),
              !.send.mod  = base + Len(e.pointees) + 2 * (j - 1) + 1]],
       !.refs = [i \in 1..Len(e.refs) |->
           IF \A b \in badRefs : k < b[1] \/ (k = b[1] /\ i < b[2])
           THEN repl[e.refs[i]]
           ELSE e.refs[i]]]

\* A second loop that stops at a reference it does not know without raising,
\* so that the counter is written back.
RemapPointeeIdsNoRaise(next, elements, repl, badRefs) ==
    [err      |-> NoError,
     elements |-> [k \in 1..Len(elements) |->
                      RemappedElement(elements[k], k,
                                      next + DefsBefore(elements, k),
                                      repl, badRefs)],
     next     |-> next + DefsBefore(elements, Len(elements) + 1)]

\* The two loops of _update_pointee_ids and the write-back of the counter,
\* which an unknown reference skips.
RemapPointeeIds(next, elements, repl, badRefs) ==
    [err      |-> IF badRefs = {} THEN NoError ELSE ErrUnknownPointee,
     elements |-> [k \in 1..Len(elements) |->
                      RemappedElement(elements[k], k,
                                      next + DefsBefore(elements, k),
                                      repl, badRefs)],
     next     |-> IF badRefs = {}
                  THEN next + DefsBefore(elements, Len(elements) + 1)
                  ELSE next]

\* An _update_pointee_ids that counts from 1 instead of the counter of the
\* document.
UpdatePointeeIdsFromOne(next, elements) ==
    RemapPointeeIds(1, elements, PointeeReplacements(1, elements),
                    UnknownRefs(elements, PointeeReplacements(1, elements)))

\* _update_pointee_ids(elements), with self._next_pointee_id = next.
UpdatePointeeIds(next, elements) ==
    RemapPointeeIds(next, elements, PointeeReplacements(next, elements),
                    UnknownRefs(elements, PointeeReplacements(next, elements)))

\* ---------------------------------------------------------------- track ids
\* A substitution made one replacement after the other: a number that was
\* replaced by a key of the replacements is replaced again.
ReplaceTrackIdsInTurn(target, repl) ==
    [i \in 1..Len(target) |->
        IF target[i].ref /\ target[i].num \in DOMAIN repl
        THEN [target[i] EXCEPT !.num = IF repl[target[i].num] \in DOMAIN repl
                                       THEN repl[repl[target[i].num]]
                                       ELSE repl[target[i].num],
                               !.pad = 0]
        ELSE IF target[i].ref
        THEN [target[i] EXCEPT !.pad = 0]
        ELSE target[i]]

\* track_pattern.sub over one routing target: every "Track.<digits>"
\* occurrence is written anew from int(digits), with the number replaced if
\* it is a key of the replacements and without leading zeros (pad) in either
\* case, all occurrences being matched on the original string.
ReplaceTrackIds(target, repl) ==
    [i \in 1..Len(target) |->
        IF target[i].ref /\ target[i].num \in DOMAIN repl
        THEN [target[i] EXCEPT !.num = repl[target[i].num], !.pad = 0]
        ELSE IF target[i].ref
        THEN [target[i] EXCEPT !.pad = 0]
        ELSE target[i]]

\* A next track id taken from the number of tracks.
NextTrackIdFromCount(doc) == Len(doc.tracks) + 1

\* max([0, *(t.id for t in [*self.primary_tracks, *self.return_tracks])]) + 1
NextTrackId(doc) ==
    SetMax({0} \cup {doc.tracks[i].id : i \in 1..Len(doc.tracks)}) + 1

\* track_id_replacements after the first loop of _update_track_ids
TrackIdReplacements(next_track_id, tracks) ==
    LastReplacements(next_track_id, [k \in 1..Len(tracks) |-> tracks[k].id])

\* Why the second loop of _update_track_ids raises at a track, if it does.
GroupFault(t, repl) ==
    IF t.group >= 0 /\ t.tag = ReturnTag THEN ErrReturnGroup
    ELSE IF t.group >= 0 /\ t.group \notin DOMAIN repl THEN ErrUnknownGroup
    ELSE NoError

\* A second loop that rewrites the routing targets and leaves the group id.
RewrittenTrackGroupKept(t, repl) ==
    [t EXCEPT
       !.routing = [r \in 1..Len(t.routing) |->
                       ReplaceTrackIds(t.routing[r], repl)]]

\* A track as the second loop of _update_track_ids leaves it: group id and
\* routing targets rewritten.
RewrittenTrack(t, repl) ==
    [t EXCEPT
       !.group = IF t.group >= 0 THEN repl[t.group] ELSE t.group,
       !.routing = [r \in 1..Len(t.routing) |->
                       ReplaceTrackIds(t.routing[r], repl)]]

\* A first loop that advances next_track_id before it assigns it.
RemapTrackIdsAdvanceFirst(tracks, next_track_id, repl, faulty) ==
    [err    |-> IF faulty = {} THEN NoError
                ELSE GroupFault(tracks[SetMin(faulty)], repl),
     tracks |-> [k \in 1..Len(tracks) |->
                    IF \A f \in faulty : k < f
                    THEN RewrittenTrack(
                             [tracks[k] EXCEPT !.id = next_track_id + k], repl)
                    ELSE [tracks[k] EXCEPT !.id = next_track_id + k]]]

\* A second loop that stops at the first track it cannot rewrite without
\* raising.
RemapTrackIdsNoRaise(tracks, next_track_id, repl, faulty) ==
    [err    |-> NoError,
     tracks |-> [k \in 1..Len(tracks) |->
                    IF \A f \in faulty : k < f
                    THEN RewrittenTrack(
                             [tracks[k] EXCEPT !.id = next_track_id + k - 1], repl)
                    ELSE [tracks[k] EXCEPT !.id = next_track_id + k - 1]]]

\* The two loops of _update_track_ids: every track gets its fresh id, then
\* the tracks are rewritten one by one up to the first the loop raises at.
RemapTrackIds(tracks, next_track_id, repl, faulty) ==
    [err    |-> IF faulty = {} THEN NoError
                ELSE GroupFault(tracks[SetMin(faulty)], repl),
     tracks |-> [k \in 1..Len(tracks) |->
                    IF \A f \in faulty : k < f
                    THEN RewrittenTrack(
                             [tracks[k] EXCEPT !.id = next_track_id + k - 1], repl)
                    ELSE [tracks[k] EXCEPT !.id = next_track_id + k - 1]]]

\* The tracks the second loop of _update_track_ids raises at.
FaultyTracks(tracks, repl) ==
    {k \in 1..Len(tracks) : GroupFault(tracks[k], repl) # NoError}

\* _update_track_ids(tracks) on the document doc
UpdateTrackIds(doc, tracks) ==
    RemapTrackIds(tracks, NextTrackId(doc),
                  TrackIdReplacements(NextTrackId(doc), tracks),
                  FaultyTracks(tracks, TrackIdReplacements(NextTrackId(doc), tracks)))

\* A check of the linked track groups that accepts every track.
UpdateLinkedTrackGroupIdsSkipped(tracks) == NoError

\* _update_linked_track_group_ids(tracks)
UpdateLinkedTrackGroupIds(tracks) ==
    IF \E k \in 1..Len(tracks) : tracks[k].linked # -1
    THEN ErrLinked
    ELSE NoError

\* ------------------------------------------------------------ insert_tracks
\* An element that stays the caller's own object instead of a copy.
DeepCopyAlias(element) == element

\* copy.deepcopy of a track: the same content in a new element object.
DeepCopy(element) == [element EXCEPT !.node = 0]

\* The counter after add_blank_send has taken its two ids, with the outcome
\* of the insert_send that follows.
BlankSendInserted(r, next) ==
    [err |-> r.err, sends |-> r.sends, next |-> next]

\* An add_blank_send that does not advance the counter.
AddBlankSendSameIds(next, index, sends) ==
    BlankSendInserted(InsertSend(sends, index, SendCreate(next, next + 1), FALSE),
                      next)

\* add_blank_send(index, sends), with self._next_pointee_id = next: two ids
\* are taken from the counter, then the holder is inserted.
AddBlankSend(next, index, sends) ==
    BlankSendInserted(InsertSend(sends, index, SendCreate(next, next + 1), FALSE),
                      next + 2)

\* for mixer_track in [*self.primary_tracks, *self.return_tracks]:
\*     add_blank_send(return_tracks_index, mixer_track...sends)
\* from the k-th track of the list (order) on; r is the outcome for the k-th.
RECURSIVE AddBlankSendsToExisting(_, _, _, _)
ExistingTrackDone(doc, order, k, index, err) ==
    IF err # NoError
    THEN [err |-> err, doc |-> doc]
    ELSE AddBlankSendsToExisting(doc, order, k + 1, index)

ExistingTrackSend(doc, order, k, index, r) ==
    ExistingTrackDone([doc EXCEPT !.tracks[order[k]].sends = r.sends,
                                  !.next = r.next],
                      order, k, index, r.err)

AddBlankSendsToExisting(doc, order, k, index) ==
    IF k > Len(order)
    THEN [err |-> NoError, doc |-> doc]
    ELSE ExistingTrackSend(doc, order, k, index,
             AddBlankSend(doc.next, index, doc.tracks[order[k]].sends))

\* for return_track in reversed(return_tracks): a blank column for every
\* track of the document (a is its outcome), then the track's SendPre value
\* into SendsPre (b is its outcome). j is the 1-based batch position the
\* loop is at.
RECURSIVE SyncExistingTracks(_, _, _, _)
SendPreDone(doc, return_tracks, j, index, err) ==
    IF err # NoError
    THEN [err |-> err, doc |-> doc]
    ELSE SyncExistingTracks(doc, return_tracks, j - 1, index)

SendPreInserted(doc, return_tracks, j, index, b) ==
    SendPreDone([doc EXCEPT !.sendsPre = b.bools], return_tracks, j, index, b.err)

ColumnInserted(return_tracks, j, index, a) ==
    IF a.err # NoError
    THEN a
    ELSE SendPreInserted(a.doc, return_tracks, j, index,
             InsertSendPreBool(a.doc.sendsPre, index, return_tracks[j].send_pre))

SyncExistingTracks(doc, return_tracks, j, index) ==
    IF j = 0
    THEN [err |-> NoError, doc |-> doc]
    ELSE ColumnInserted(return_tracks, j, index,
             AddBlankSendsToExisting(doc, MixerPositions(doc), 1, index))

\* for _ in range(count): add_blank_send(0, sends)
RECURSIVE AddBlankSends(_, _, _)
BlankSendAdded(count, r) ==
    IF r.err # NoError THEN r ELSE AddBlankSends(r.next, r.sends, count - 1)

\* A loop that adds no blank send.
AddBlankSendsNone(next, sends, count) ==
    [err |-> NoError, sends |-> sends, next |-> next]

AddBlankSends(next, sends, count) ==
    IF count = 0
    THEN [err |-> NoError, sends |-> sends, next |-> next]
    ELSE BlankSendAdded(count, AddBlankSend(next, 0, sends))

\* for track_send_holder in reversed(external_track_send_holders):
\*     sends.insert_send(return_tracks_index, holder.send, enabled_by_user=...)
RECURSIVE ReAddSends(_, _, _, _)
SendReAdded(holders, j, index, r) ==
    IF r.err # NoError THEN r ELSE ReAddSends(r.sends, holders, j - 1, index)

ReAddSends(sends, holders, j, index) ==
    IF j = 0
    THEN [err |-> NoError, sends |-> sends]
    ELSE SendReAdded(holders, j, index,
             InsertSend(sends, index, holders[j].send, holders[j].enabled))

\* The holders of the track taken by the place of the return tracks in the
\* batch instead of their send index.
ExternalByBatchPlace(track, return_tracks) ==
    [i \in 1..Len(return_tracks) |-> track.sends[i]]

\* external_track_send_holders: the holders of the track for the incoming
\* return tracks, by their send index in the source set.
ExternalTrackSendHolders(track, return_tracks) ==
    [i \in 1..Len(return_tracks) |-> track.sends[return_tracks[i].send_index + 1]]

\* The track with the send list the loop body has built for it.
SendsRebuilt(track, next, readd) ==
    [err |-> readd.err, track |-> [track EXCEPT !.sends = readd.sends],
     next |-> next]

BlankSendsAdded(track, external, index, blank) ==
    IF blank.err # NoError
    THEN [err |-> blank.err, track |-> [track EXCEPT !.sends = blank.sends],
          next |-> blank.next]
    ELSE SendsRebuilt(track, blank.next,
             ReAddSends(blank.sends, external, Len(external), index))

\* The body of the loop over the incoming mixer tracks for one track: its
\* holders for the incoming return tracks are kept aside, all its holders
\* are deleted, one blank holder is added per return track of the document
\* (count), and the kept holders are put back at the return index.
RebuildTrackSends(next, count, track, return_tracks, index) ==
    IF \E i \in 1..Len(return_tracks) :
          return_tracks[i].send_index >= Len(track.sends)
    THEN [err |-> ErrIndexError, track |-> track, next |-> next]
    ELSE BlankSendsAdded(track, ExternalTrackSendHolders(track, return_tracks),
             index, AddBlankSends(next, DeleteAllSends(track.sends), count))

\* for track in mixer_tracks: ... from the k-th incoming track on; r is the
\* outcome for the k-th.
RECURSIVE RebuildIncomingSends(_, _, _, _, _, _)
IncomingTrackDone(count, tracks, k, return_tracks, index, err, next) ==
    IF err # NoError
    THEN [err |-> err, tracks |-> tracks, next |-> next]
    ELSE RebuildIncomingSends(next, count, tracks, k + 1, return_tracks, index)

IncomingTrackRebuilt(count, tracks, k, return_tracks, index, r) ==
    IncomingTrackDone(count, [tracks EXCEPT ![k] = r.track], k,
                      return_tracks, index, r.err, r.next)

RebuildIncomingSends(next, count, tracks, k, return_tracks, index) ==
    IF k > Len(tracks)
    THEN [err |-> NoError, tracks |-> tracks, next |-> next]
    ELSE IncomingTrackRebuilt(count, tracks, k, return_tracks, index,
             RebuildTrackSends(next, count, tracks[k], return_tracks, index))

\* A splice that goes through the elements from the first to the last, each
\* going in at the index.
InsertAllAtForward(tracks, elements, j, index) ==
    SubSeq(tracks, 1, InsertionPoint(tracks, index))
    \o [i \in 1..j |-> elements[j + 1 - i]]
    \o SubSeq(tracks, InsertionPoint(tracks, index) + 1, Len(tracks))

\* for track in reversed(elements): self._tracks_element.insert(index, track)
RECURSIVE InsertAllAt(_, _, _, _)
InsertAllAt(tracks, elements, j, index) ==
    IF j = 0 THEN tracks
    ELSE InsertAllAt(InsertAt(tracks, index, elements[j]), elements, j - 1, index)

\* An index check that rejects the negative indices only.
IndexFaultNegativeOnly(doc, primary_tracks_index, return_tracks_index) ==
    \/ primary_tracks_index < 0
    \/ return_tracks_index < 0

\* The index check at the head of insert_tracks.
IndexFault(doc, primary_tracks_index, return_tracks_index) ==
    \/ primary_tracks_index < 0
    \/ primary_tracks_index > Len(PrimaryTracksOf(doc))
    \/ return_tracks_index < 0
    \/ return_tracks_index > Len(ReturnTracksOf(doc))

\* A splice that counts the return index from the end of the primary tracks
\* of the document, the incoming ones left out.
SpliceTracksOldCount(doc, primary, primary_tracks_index, returns, return_tracks_index) ==
    InsertAllAt(InsertAllAt(doc.tracks, primary, Len(primary), primary_tracks_index),
                returns, Len(returns),
                Len(PrimaryTracksOf(doc)) + return_tracks_index)

\* The two splices of the mixer tracks into <Tracks>; both indices are
\* computed before the first splice.
SpliceTracks(doc, primary, primary_tracks_index, returns, return_tracks_index) ==
    InsertAllAt(InsertAllAt(doc.tracks, primary, Len(primary), primary_tracks_index),
                returns, Len(returns),
                Len(PrimaryTracksOf(doc)) + Len(primary) + return_tracks_index)

\* list(self._element).index(main_track_element), as a 1-based position.
MainTrackIndex(top) == SetMin({i \in 1..Len(top) : top[i] = MainTag})

\* A replacement that removes the main track and appends the new one to the
\* children of the document.
ReplaceMainTrackAppended(doc, main, work) ==
    IF main = <<>>
    THEN [err |-> NoError, doc |-> doc, work |-> work]
    ELSE IF doc.main.tag = NoMain.tag
    THEN [err |-> ErrNoMain, doc |-> doc, work |-> work]
    ELSE [err |-> NoError,
          doc |-> [doc EXCEPT !.main = main[1],
                              !.top = RemoveAt(doc.top, MainTrackIndex(doc.top) - 1)
                                      \o <<main[1].tag>>],
          work |-> work]

\* The last step of insert_tracks: main is empty, or holds the copy that
\* replaces the main track of the document, at the place of the old one.
ReplaceMainTrack(doc, main, work) ==
    IF main = <<>>
    THEN [err |-> NoError, doc |-> doc, work |-> work]
    ELSE IF doc.main.tag = NoMain.tag
    THEN [err |-> ErrNoMain, doc |-> doc, work |-> work]
    ELSE [err |-> NoError,
          doc |-> [doc EXCEPT !.main = main[1],
                              !.top[MainTrackIndex(doc.top)] = main[1].tag],
          work |-> work]

\* insert_tracks once the send lists of the incoming tracks are rebuilt (r):
\* the splices and the main track. np is the number of incoming primary
\* tracks.
IncomingSendsRebuilt(doc, np, primary_tracks_index, return_tracks_index, main, r) ==
    IF r.err # NoError
    THEN [err |-> r.err, doc |-> [doc EXCEPT !.next = r.next],
          work |-> r.tracks \o main]
    ELSE ReplaceMainTrack(
             [doc EXCEPT !.next = r.next,
                         !.tracks = SpliceTracks(doc, SubSeq(r.tracks, 1, np),
                                        primary_tracks_index,
                                        SubSeq(r.tracks, np + 1, Len(r.tracks)),
                                        return_tracks_index)],
             main, r.tracks \o main)

\* insert_tracks once the tracks of the document have their blank columns
\* (s): the send lists of the incoming tracks.
ExistingTracksSynced(np, primary_tracks_index, return_tracks, return_tracks_index, tracks, main, s) ==
    IF s.err # NoError
    THEN [err |-> s.err, doc |-> s.doc, work |-> tracks \o main]
    ELSE IncomingSendsRebuilt(s.doc, np, primary_tracks_index,
             return_tracks_index, main,
             RebuildIncomingSends(s.doc.next, Len(ReturnTracksOf(s.doc)),
                                  tracks, 1, return_tracks, return_tracks_index))

\* insert_tracks once _update_track_ids has run (t): the linked track
\* groups, then the blank columns.
TrackIdsUpdated(doc, np, primary_tracks_index, return_tracks, return_tracks_index, main, t) ==
    IF t.err # NoError
    THEN [err |-> t.err, doc |-> doc, work |-> t.tracks \o main]
    ELSE IF UpdateLinkedTrackGroupIds(t.tracks \o main) # NoError
    THEN [err |-> UpdateLinkedTrackGroupIds(t.tracks \o main), doc |-> doc,
          work |-> t.tracks \o main]
    ELSE ExistingTracksSynced(np, primary_tracks_index, return_tracks,
             return_tracks_index, t.tracks, main,
             SyncExistingTracks(doc, return_tracks, Len(return_tracks),
                                return_tracks_index))

\* insert_tracks once _update_pointee_ids has run (p) on the np primary
\* tracks, the return tracks and the main track, if any: the counter is
\* written back, then _update_track_ids.
PointeeIdsUpdated(doc, np, primary_tracks_index, return_tracks, return_tracks_index, p) ==
    IF p.err # NoError
    THEN [err |-> p.err, doc |-> doc, work |-> p.elements]
    ELSE TrackIdsUpdated([doc EXCEPT !.next = p.next], np, primary_tracks_index,
             return_tracks, return_tracks_index,
             SubSeq(p.elements, np + Len(return_tracks) + 1, Len(p.elements)),
             UpdateTrackIds(doc, SubSeq(p.elements, 1, np + Len(return_tracks))))

\* The deep copies insert_tracks works on: the primary tracks, the elements
\* of the return tracks, and the main track if there is one.
CopiesOf(primary_tracks, return_tracks, main_track) ==
    [i \in 1..Len(primary_tracks) |-> DeepCopy(primary_tracks[i])]
    \o [i \in 1..Len(return_tracks) |-> DeepCopy(return_tracks[i].element)]
    \o (IF main_track.tag = NoMain.tag THEN <<>> ELSE <<DeepCopy(main_track)>>)

\* insert_tracks(primary_tracks, primary_tracks_index, return_tracks,
\* return_tracks_index, main_track) on the document doc. primary_tracks are
\* track elements, return_tracks are return tracks with their context,
\* main_track is an element or NoMain. The result is the exception raised
\* (or NoError), the document as the call leaves it, and the elements the
\* call has worked on, as it leaves them.
InsertTracks(doc, primary_tracks, primary_tracks_index, return_tracks, return_tracks_index, main_track) ==
    IF IndexFault(doc, primary_tracks_index, return_tracks_index)
    THEN [err |-> ErrIndex, doc |-> doc, work |-> <<>>]
    ELSE PointeeIdsUpdated(doc, Len(primary_tracks), primary_tracks_index,
             return_tracks, return_tracks_index,
             UpdatePointeeIds(doc.next,
                 CopiesOf(primary_tracks, return_tracks, main_track)))

\* What a set shows of its elements after a call has worked on `work`: an
\* element of the set that is one of the worked-on objects (the same node)
\* shows the call's changes.
ObservedElement(e, work) ==
    IF e.tag # NoMain.tag /\ e.node # 0
       /\ \E k \in 1..Len(work) : work[k].node = e.node
    THEN work[CHOOSE k \in 1..Len(work) : work[k].node = e.node]
    ELSE e

Observed(set, work) ==
    [set EXCEPT !.tracks = [i \in 1..Len(set.tracks) |->
                               ObservedElement(set.tracks[i], work)],
                !.main = ObservedElement(set.main, work)]

\* ------------------------------------------------------------ the documents
\* Routing targets are sequences of tokens: a piece of text, or an occurrence
\* of "Track.<digits>", the digits being the number num after pad leading
\* zeros. Live writes the ids without leading zeros.
Text(s) == [ref |-> FALSE, text |-> s, num |-> 0, pad |-> 0]

TrackRef(n) == [ref |-> TRUE, text |-> "Track.", num |-> n, pad |-> 0]

NoRouting ==
    << <<Text("AudioIn/External/S0")>>, <<Text("AudioOut/Main")>>,
       <<Text("MidiIn/External.All/-1")>>, <<Text("MidiOut/None")>> >>

RoutedTo(n) ==
    << <<Text("AudioIn/External/S0")>>,
       <<Text("AudioOut/"), TrackRef(n), Text("/TrackIn")>>,
       <<Text("MidiIn/External.All/-1")>>, <<Text("MidiOut/None")>> >>

SendHolder(id, enabled, manual, auto, mod) ==
    Holder(id, [manual |-> manual, auto |-> auto, mod |-> mod], enabled)

MixerTrack(tag, id, group, routing, pointees, refs, sends, node) ==
    [tag |-> tag, id |-> id, group |-> group, linked |-> -1,
     routing |-> routing, pointees |-> pointees, refs |-> refs,
     sends |-> sends, node |-> node]

MainTrack(pointees, refs, node) ==
    [tag |-> MainTag, linked |-> -1, pointees |-> pointees, refs |-> refs,
     sends |-> <<>>, node |-> node]

\* The children of <LiveSet> the code looks up with find(), in an order a
\* document may have them in.
TopLevel == <<"NextPointeeId", "Tracks", MainTag, "SendsPre">>

\* The destination of the scenarios: a group (1) with one child (2) routed
\* into it, and one return track (3); every track has one send column. The
\* child automates its own send.
ScenarioSet ==
    [tracks |-> <<
        MixerTrack("GroupTrack", 1, -1, NoRouting, <<1>>, <<1>>,
                   <<SendHolder(0, TRUE, "0.5", 2, 3)>>, 0),
        MixerTrack("AudioTrack", 2, 1, RoutedTo(1), <<4>>, <<4, 5>>,
                   <<SendHolder(0, FALSE, "1", 5, 6)>>, 0),
        MixerTrack(ReturnTag, 3, -1, NoRouting, <<7>>, <<>>,
                   <<SendHolder(0, FALSE, MinValueStr, 8, 9)>>, 0) >>,
     sendsPre |-> << [id |-> 0, value |-> TRUE] >>,
     next |-> 12,
     main |-> MainTrack(<<10>>, <<10>>, 0),
     top  |-> TopLevel]

\* A set with no tracks and no main track.
BareSet ==
    [tracks |-> <<>>, sendsPre |-> <<>>, next |-> 1, main |-> NoMain,
     top |-> SelectSeq(TopLevel, LAMBDA tag : tag # MainTag)]

\* A source set: a group (5) and its child (4), whose ids are the ones the
\* scenario set hands out next, and two return tracks (6, 7). The child is
\* routed into the group and automates its send to the second return track.
SourceSetA ==
    [tracks |-> <<
        MixerTrack("GroupTrack", 5, -1, NoRouting, <<1>>, <<1>>,
                   <<SendHolder(0, TRUE, "0.5", 2, 3),
                     SendHolder(1, FALSE, "1", 4, 5)>>, 1),
        MixerTrack("AudioTrack", 4, 5, RoutedTo(5), <<6>>, <<6, 9>>,
                   <<SendHolder(0, FALSE, "0.25", 7, 8),
                     SendHolder(1, TRUE, "0.75", 9, 10)>>, 2),
        MixerTrack(ReturnTag, 6, -1, NoRouting, <<11>>, <<11>>,
                   <<SendHolder(0, FALSE, MinValueStr, 12, 13),
                     SendHolder(1, TRUE, "0.5", 14, 15)>>, 3),
        MixerTrack(ReturnTag, 7, -1, RoutedTo(6), <<16>>, <<>>,
                   <<SendHolder(0, TRUE, "1", 17, 18),
                     SendHolder(1, FALSE, MinValueStr, 19, 20)>>, 4) >>,
     sendsPre |-> << [id |-> 0, value |-> TRUE], [id |-> 1, value |-> FALSE] >>,
     next |-> 23,
     main |-> MainTrack(<<21>>, <<21, 1>>, 5),
     top  |-> TopLevel]

\* A source set whose tracks insert_tracks rejects: a track in a linked
\* track group, a track that refers to a pointee of no track, and a return
\* track with a group id.
SourceSetB ==
    [tracks |-> <<
        [MixerTrack("MidiTrack", 1, -1, NoRouting, <<1>>, <<1>>,
                    <<SendHolder(0, FALSE, MinValueStr, 2, 3)>>, 1)
            EXCEPT !.linked = 0],
        MixerTrack("AudioTrack", 2, -1, NoRouting, <<4>>, <<4, 40>>,
                   <<SendHolder(0, FALSE, MinValueStr, 5, 6)>>, 2),
        MixerTrack(ReturnTag, 3, 1, NoRouting, <<7>>, <<>>,
                   <<SendHolder(0, FALSE, MinValueStr, 8, 9)>>, 3) >>,
     sendsPre |-> << [id |-> 0, value |-> FALSE] >>,
     next |-> 12,
     main |-> MainTrack(<<10>>, <<10>>, 4),
     top  |-> TopLevel]

\* A set with one primary track (4) and two return tracks (5, 6), whose ids
\* are ids of tracks of SourceSetA; the primary track is routed into the
\* first return track and automates its send to the second.
TwoReturnSet ==
    [tracks |-> <<
        MixerTrack("MidiTrack", 4, -1, RoutedTo(5), <<1>>, <<1, 4>>,
                   <<SendHolder(0, TRUE, "0.5", 2, 3),
                     SendHolder(1, TRUE, "1", 4, 5)>>, 0),
        MixerTrack(ReturnTag, 5, -1, NoRouting, <<6>>, <<>>,
                   <<SendHolder(0, FALSE, MinValueStr, 7, 8),
                     SendHolder(1, FALSE, "0.5", 9, 10)>>, 0),
        MixerTrack(ReturnTag, 6, -1, NoRouting, <<11>>, <<11>>,
                   <<SendHolder(0, TRUE, "0.25", 12, 13),
                     SendHolder(1, FALSE, MinValueStr, 14, 15)>>, 0) >>,
     sendsPre |-> << [id |-> 0, value |-> FALSE], [id |-> 1, value |-> TRUE] >>,
     next |-> 18,
     main |-> MainTrack(<<16>>, <<16>>, 0),
     top  |-> TopLevel]

\* TwoReturnSet as a file may hold it, the send holders of its first return
\* track numbered 1, 0: the constructor of LiveSet checks the order of the
\* tracks only.
MisnumberedSet ==
    [TwoReturnSet EXCEPT !.tracks[2].sends[1].id = 1,
                         !.tracks[2].sends[2].id = 0]

InitialSets == {ScenarioSet, BareSet, TwoReturnSet}

SourceSets == {SourceSetA, SourceSetB}

\* ------------------------------------------------------------------- state
VARIABLES
    dst,     \* the set the calls are made on
    src,     \* the set the inserted tracks are taken from
    pre,     \* dst and src as they were when the last call began
    call,    \* the last call: operation, arguments and exception raised
    ncalls   \* number of calls made

vars == <<dst, src, pre, call, ncalls>>

Call(op, primary, primary_index, returns, return_index, main, index, err) ==
    [op |-> op, primary |-> primary, primary_index |-> primary_index,
     returns |-> returns, return_index |-> return_index, main |-> main,
     index |-> index, err |-> err]

InitFrom(sets) ==
    /\ dst \in sets
    /\ src \in SourceSets
    /\ pre = [dst |-> dst, src |-> src]
    /\ call = Call("init", <<>>, 0, <<>>, 0, FALSE, 0, NoError)
    /\ ncalls = 0

Init == InitFrom(InitialSets)

\* The sets a file can hold, well numbered or not.
InitLoaded == InitFrom(InitialSets \cup {MisnumberedSet})

\* A call that changed nothing has left the program where it was: the runs
\* that go on from there are the runs from the state before it, and the
\* model follows those only.
ChangedNothing == ncalls > 0 /\ dst = pre.dst /\ src = pre.src

\* The program makes another call.
CanCall == ncalls < MaxCalls /\ ~ChangedNothing

\* The batches a caller takes from n tracks: up to MaxBatch of them, each at
\* most once, in any order (as 1-based positions among the n).
Batches(n) ==
    UNION {{b \in [1..len -> 1..n] : \A i, j \in 1..len : i # j => b[i] # b[j]}
           : len \in 0..MaxBatch}

\* The state after a call of insert_tracks with outcome res.
Inserted(op, primary, primary_index, returns, return_index, main, res) ==
    /\ dst' = res.doc
    /\ src' = Observed(src, res.work)
    /\ pre' = [dst |-> dst, src |-> src]
    /\ call' = Call(op, primary, primary_index, returns, return_index,
                    main, 0, res.err)
    /\ ncalls' = ncalls + 1

\* One call of insert_tracks with tracks taken from src: primary and returns
\* are the positions of the tracks among the primary and the return tracks
\* of src, main tells whether the main track of src is given.
DoInsert(op, primary, primary_index, returns, return_index, main) ==
    /\ Len(dst.tracks) + Len(primary) + Len(returns) <= MaxTracks
    /\ Inserted(op, primary, primary_index, returns, return_index, main,
           InsertTracks(dst,
               [i \in 1..Len(primary) |-> PrimaryTracksOf(src)[primary[i]]],
               primary_index,
               [i \in 1..Len(returns) |-> ReturnTracksOf(src)[returns[i]]],
               return_index,
               IF main THEN src.main ELSE NoMain))

\* The arguments with which insert_primary_tracks, insert_return_tracks and
\* the setter of main_track call insert_tracks.
WrapperArguments(primary, primary_index, returns, return_index, main) ==
    \/ returns = <<>> /\ return_index = 0 /\ ~main
    \/ primary = <<>> /\ primary_index = 0 /\ ~main
    \/ primary = <<>> /\ primary_index = 0 /\ returns = <<>> /\ return_index = 0

\* live_set.insert_tracks(primary_tracks, primary_tracks_index,
\*                        return_tracks, return_tracks_index, main_track)
InsertTracksCall ==
    /\ CanCall
    /\ \E primary \in Batches(NumPrimary(src)), returns \in Batches(NumReturn(src)),
          primary_index \in -1..(NumPrimary(dst) + 1),
          return_index \in -1..(NumReturn(dst) + 1),
          main \in BOOLEAN :
        /\ Len(primary) + Len(returns) <= MaxBatch
        /\ ~WrapperArguments(primary, primary_index, returns, return_index, main)
        /\ DoInsert("insert_tracks", primary, primary_index,
                    returns, return_index, main)

\* live_set.insert_primary_tracks(primary_tracks, index)
InsertPrimaryTracks ==
    /\ CanCall
    /\ \E primary \in Batches(NumPrimary(src)),
          index \in -1..(NumPrimary(dst) + 1) :
        DoInsert("insert_primary_tracks", primary, index, <<>>, 0, FALSE)

\* live_set.insert_return_tracks(return_tracks, index)
InsertReturnTracks ==
    /\ CanCall
    /\ \E returns \in Batches(NumReturn(src)),
          index \in -1..(NumReturn(dst) + 1) :
        DoInsert("insert_return_tracks", <<>>, 0, returns, index, FALSE)

\* live_set.main_track = main_track
SetMainTrack ==
    /\ CanCall
    /\ DoInsert("main_track", <<>>, 0, <<>>, 0, TRUE)

\* sequence[index] of Python: a negative index counts from the end.
PyIndex(len, index) == IF index < 0 THEN index + len ELSE index

\* A removal that takes the first track of the kind, whatever the index.
DeleteTrackFirst(doc, isReturn, index) ==
    IF PyIndex(Len(TrackPositions(doc, isReturn)), index) < 0
       \/ PyIndex(Len(TrackPositions(doc, isReturn)), index)
             >= Len(TrackPositions(doc, isReturn))
    THEN [err |-> ErrIndexError, doc |-> doc]
    ELSE [err |-> NoError,
          doc |-> [doc EXCEPT !.tracks =
                      RemoveAt(doc.tracks, TrackPositions(doc, isReturn)[1] - 1)]]

\* delete_primary_track / delete_return_track: the index-th track of the
\* kind is looked up and its element removed from <Tracks>.
DeleteTrack(doc, isReturn, index) ==
    LET pos == TrackPositions(doc, isReturn)
        at == PyIndex(Len(pos), index)
    IN  IF at < 0 \/ at >= Len(pos)
        THEN [err |-> ErrIndexError, doc |-> doc]
        ELSE [err |-> NoError,
              doc |-> [doc EXCEPT !.tracks = RemoveAt(doc.tracks, pos[at + 1] - 1)]]

Deleted(op, index, res) ==
    /\ dst' = res.doc
    /\ pre' = [dst |-> dst, src |-> src]
    /\ call' = Call(op, <<>>, 0, <<>>, 0, FALSE, index, res.err)
    /\ ncalls' = ncalls + 1
    /\ UNCHANGED src

DoDelete(op, isReturn, index) ==
    Deleted(op, index, DeleteTrack(dst, isReturn, index))

\* live_set.delete_primary_track(index)
DeletePrimaryTrack ==
    /\ CanCall
    /\ \E index \in -1..NumPrimary(dst) :
        DoDelete("delete_primary_track", FALSE, index)

\* live_set.delete_return_track(index)
DeleteReturnTrack ==
    /\ CanCall
    /\ \E index \in -1..NumReturn(dst) :
        DoDelete("delete_return_track", TRUE, index)

Next ==
    \/ InsertTracksCall
    \/ InsertPrimaryTracks
    \/ InsertReturnTracks
    \/ SetMainTrack
    \/ DeletePrimaryTrack
    \/ DeleteReturnTrack

Spec == Init /\ [][Next]_vars

\* Insertions only.
NextInsert ==
    \/ InsertTracksCall
    \/ InsertPrimaryTracks
    \/ InsertReturnTracks
    \/ SetMainTrack

SpecInsert == Init /\ [][NextInsert]_vars

\* Calls on a set as loaded from any file.
SpecLoaded == InitLoaded /\ [][Next]_vars

\* ------------------------------------------------- reading and writing files
\* The decompressed bytes of a file are a sequence of pieces of text: an XML
\* declaration (or none), the tags of the elements, and line breaks after the
\* end tag of the root. The whitespace inside the root is text of the
\* elements, which the parser keeps and the writer writes as it is; it is
\* left out. In SpecFile the variables hold: src the bytes read, dst the
\* element tree of the document object (NoDocument before it is read), pre
\* the bytes written, call the last call.
WrittenProlog == "<?xml version=\"1.0\" encoding=\"UTF-8\"?>\n"

Prologs == {WrittenProlog, "<?xml version='1.0' encoding='utf-8'?>\n", ""}

RootTag == "Ableton"

LiveSetTag == "LiveSet"

LeafTag == "Tracks"

EmptyStyles == {"<Tracks />", "<Tracks/>", "<Tracks></Tracks>"}

ErrNoDocument == "ValueError: The data does not contain an Ableton document"
ErrNested == "ValueError: The data must contain exactly one nested element"
NoDocument == [tag |-> "None"]

\* The bytes of a file: the declaration, the root with `sets` LiveSet
\* children, each with the leaves given (a sequence of ways to write an empty
\* element), and `breaks` line breaks at the end.
RECURSIVE Repeat(_, _)
Repeat(piece, n) == IF n = 0 THEN <<>> ELSE piece \o Repeat(piece, n - 1)

FileBytes(prolog, root, sets, leaves, breaks) ==
    (IF prolog = "" THEN <<>> ELSE <<prolog>>)
    \o << "<" \o root \o ">" >>
    \o Repeat(<< "<LiveSet>" >> \o leaves \o << "</LiveSet>" >>, sets)
    \o << "</" \o root \o ">" >>
    \o Repeat(<< "\n" >>, breaks)

\* The files the model reads.
Files ==
    {FileBytes(prolog, root, sets, leaves, breaks) :
        prolog \in Prologs, root \in {RootTag, "Project"}, sets \in 0..2,
        leaves \in UNION {[1..n -> EmptyStyles] : n \in 0..MaxLeaves},
        breaks \in 0..2}

\* ElementTree.parse: the tree of the root element. The declaration and what
\* follows the end tag of the root are no part of it, and an empty element
\* is the same element however it was written.
RECURSIVE ParseChildren(_)
ParseChildren(bytes) ==
    IF bytes = <<>> \/ Head(bytes) = "</LiveSet>" THEN <<>>
    ELSE <<[tag |-> LeafTag, children |-> <<>>]>> \o ParseChildren(Tail(bytes))

RECURSIVE ParseSets(_)
ParseSets(bytes) ==
    IF bytes = <<>> THEN <<>>
    ELSE IF Head(bytes) = "<LiveSet />"
    THEN <<[tag |-> LiveSetTag, children |-> <<>>]>> \o ParseSets(Tail(bytes))
    ELSE IF Head(bytes) # "<LiveSet>" THEN <<>>
    ELSE <<[tag |-> LiveSetTag, children |-> ParseChildren(Tail(bytes))]>>
         \o ParseSets(SubSeq(bytes, Len(ParseChildren(Tail(bytes))) + 3, Len(bytes)))

ParseRoot(bytes) ==
    [tag      |-> IF Head(bytes) = "<Ableton>" THEN RootTag ELSE "Project",
     children |-> ParseSets(Tail(bytes))]

Parse(bytes) ==
    IF Head(bytes) \in Prologs THEN ParseRoot(Tail(bytes)) ELSE ParseRoot(bytes)

\* ElementTree.write(xml_declaration=False, method="xml"): an element without
\* children and text is written as "<tag />".
RECURSIVE Serialize(_)
Serialize(element) ==
    IF element.children = <<>>
    THEN << "<" \o element.tag \o " />" >>
    ELSE << "<" \o element.tag \o ">" >>
         \o Flatten([i \in 1..Len(element.children) |->
                        Serialize(element.children[i])])
         \o << "</" \o element.tag \o ">" >>

\* AbletonDocumentObject.__init__ and LiveSet.__init__ on the bytes of a
\* file.
ReadDocument(bytes) ==
    IF Parse(bytes).tag # RootTag
    THEN [err |-> ErrNoDocument, tree |-> NoDocument]
    ELSE IF Len(Parse(bytes).children) # 1
    THEN [err |-> ErrNested, tree |-> NoDocument]
    ELSE [err |-> NoError, tree |-> Parse(bytes)]

\* A write that ends with the document body.
WriteDocumentNoBreak(tree) == <<WrittenProlog>> \o Serialize(tree)

\* AbletonDocumentObject.write: the declaration, the tree, a line break.
WriteDocument(tree) == <<WrittenProlog>> \o Serialize(tree) \o << "\n" >>

InitFile ==
    /\ src \in Files
    /\ dst = NoDocument
    /\ pre = <<>>
    /\ call = Call("init", <<>>, 0, <<>>, 0, FALSE, 0, NoError)
    /\ ncalls = 0

\* LiveSet.from_file(file)
ReadFile ==
    /\ call.op = "init"
    /\ dst' = ReadDocument(src).tree
    /\ call' = Call("read", <<>>, 0, <<>>, 0, FALSE, 0, ReadDocument(src).err)
    /\ ncalls' = ncalls + 1
    /\ UNCHANGED <<src, pre>>

\* live_set.write(output), on the document as it was read
WriteFile ==
    /\ call.op = "read" /\ call.err = NoError
    /\ pre' = WriteDocument(dst)
    /\ call' = Call("write", <<>>, 0, <<>>, 0, FALSE, 0, NoError)
    /\ ncalls' = ncalls + 1
    /\ UNCHANGED <<src, dst>>

NextFile ==
    \/ ReadFile
    \/ WriteFile

SpecFile == InitFile /\ [][NextFile]_vars

\* ------------------------------------------------------- what the claims read
InsertOps ==
    {"insert_tracks", "insert_primary_tracks", "insert_return_tracks", "main_track"}

\* The last call was an insertion / raised nothing.
IsInsert == call.op \in InsertOps

Completed == call.err = NoError

\* The tracks the last call was given, as elements of the source set.
GivenPrimary == [i \in 1..Len(call.primary) |->
                    PrimaryTracksOf(pre.src)[call.primary[i]]]

GivenReturns == [i \in 1..Len(call.returns) |->
                    ReturnTracksOf(pre.src)[call.returns[i]].element]

Distinct(s) == \A i, j \in 1..Len(s) : i # j => s[i] # s[j]

\* One send holder per return track in every mixer track, one SendsPre entry
\* per return track.
Aligned(doc) ==
    /\ \A i \in 1..Len(doc.tracks) : Len(doc.tracks[i].sends) = NumReturn(doc)
    /\ Len(doc.sendsPre) = NumReturn(doc)

TrackIds(doc) == [i \in 1..Len(doc.tracks) |-> doc.tracks[i].id]

\* No primary track after a return track.
Ordered(doc) ==
    \A i, j \in 1..Len(doc.tracks) :
        (i < j /\ doc.tracks[i].tag = ReturnTag) => doc.tracks[j].tag = ReturnTag

\* The elements of the document that hold pointees: the tracks and the main
\* track.
Elements(doc) ==
    doc.tracks \o (IF doc.main.tag = NoMain.tag THEN <<>> ELSE <<doc.main>>)

AllDefIds(doc) ==
    Flatten([k \in 1..Len(Elements(doc)) |-> DefIds(Elements(doc)[k])])

PointeesUnique(doc) ==
    /\ Distinct(AllDefIds(doc))
    /\ \A id \in Range(AllDefIds(doc)) : id < doc.next

RefsResolve(doc) ==
    \A k \in 1..Len(Elements(doc)) :
        Range(Elements(doc)[k].refs) \subseteq Range(AllDefIds(doc))

IdsPositional(s) == \A p \in 1..Len(s) : s[p].id = p - 1

HoldersPositional(doc) ==
    \A i \in 1..Len(doc.tracks) : IdsPositional(doc.tracks[i].sends)

\* ------------------------------------------------------------------ claims
\* C1: an insertion that completes on a document with one send holder per
\* return track in every mixer track and one SendsPre entry per return track,
\* with tracks from a source set of the same kind, leaves a document of that
\* kind: len(sends(T)) = count(return_tracks) for every mixer track T, old or
\* new, and len(SendsPre) = count(return_tracks).
SendMatrixAligned ==
    (IsInsert /\ Completed /\ Aligned(pre.dst) /\ Aligned(pre.src))
        => Aligned(dst)

\* A completed insert_tracks of primary and return tracks into a set that had
\* return tracks and primary tracks already.
SendMatrixAlignedWitness ==
    /\ call.op = "insert_tracks" /\ Completed
    /\ call.primary # <<>> /\ call.returns # <<>>
    /\ NumReturn(pre.dst) >= 1 /\ NumPrimary(pre.dst) >= 1
    /\ NumReturn(dst) = NumReturn(pre.dst) + Len(call.returns)
    /\ Len(dst.tracks) = Len(pre.dst.tracks) + Len(call.primary) + Len(call.returns)
    /\ Aligned(dst)

\* C3: after an insertion into a document whose mixer tracks have pairwise
\* distinct ids, all mixer tracks of the document, old and new, have pairwise
\* distinct ids, whatever ids the incoming tracks had in their source set.
TrackIdsUnique ==
    (IsInsert /\ Distinct(TrackIds(pre.dst))) => Distinct(TrackIds(dst))

\* Two tracks were inserted whose ids in the source set are ids of tracks of
\* the document.
TrackIdsUniqueWitness ==
    /\ IsInsert /\ Completed
    /\ Len(GivenPrimary) + Len(GivenReturns) = 2
    /\ Len(dst.tracks) = Len(pre.dst.tracks) + 2
    /\ \A k \in 1..Len(GivenPrimary) : GivenPrimary[k].id \in Range(TrackIds(pre.dst))
    /\ \A k \in 1..Len(GivenReturns) : GivenReturns[k].id \in Range(TrackIds(pre.dst))
    /\ Distinct(TrackIds(dst))

\* C4: after any sequence of insert_tracks, delete_primary_track and
\* delete_return_track calls on a document that starts with all primary
\* tracks before all return tracks, no primary track comes after a return
\* track in the track list.
OrderInvariant == Ordered(dst)

\* A completed insert_tracks of primary and return tracks, the return tracks
\* going after an existing return track and the primary tracks before an
\* existing primary track.
OrderInvariantWitness ==
    /\ call.op = "insert_tracks" /\ Completed
    /\ call.primary # <<>> /\ call.returns # <<>>
    /\ call.return_index >= 1
    /\ NumPrimary(pre.dst) >= 1 /\ call.primary_index = 0
    /\ Len(dst.tracks) = Len(pre.dst.tracks) + Len(call.primary) + Len(call.returns)
    /\ Ordered(dst)

DeleteReturnRemovesColumn ==
    (/\ call.op = "delete_return_track" /\ Completed /\ call.index >= 0
     /\ Aligned(pre.dst) /\ HoldersPositional(pre.dst))
        => /\ NumReturn(dst) = NumReturn(pre.dst) - 1
           /\ Aligned(dst)
           /\ HoldersPositional(dst)

\* delete_return_track(0) has completed on a document with two return
\* tracks: the return track is gone.
DeleteReturnWitness ==
    /\ call.op = "delete_return_track" /\ Completed /\ call.index = 0
    /\ NumReturn(pre.dst) = 2 /\ Aligned(pre.dst)
    /\ NumReturn(dst) = 1

\* C6: after an insertion that completes without error into a document whose
\* PointeeId references all resolve, every PointeeId reference of the
\* document resolves to a pointee definition of the document, the references
\* of an inserted track to the targets of its own send holders included.
ReferencesResolve ==
    (IsInsert /\ Completed /\ RefsResolve(pre.dst)) => RefsResolve(dst)

\* An insertion has completed for a track that refers to the automation
\* target of one of its own send holders.
ReferencesResolveWitness ==
    /\ IsInsert /\ Completed
    /\ \E k \in 1..Len(GivenPrimary) : \E j \in 1..Len(GivenPrimary[k].sends) :
          GivenPrimary[k].sends[j].send.auto \in Range(GivenPrimary[k].refs)
    /\ Len(dst.tracks) = Len(pre.dst.tracks) + Len(call.primary) + Len(call.returns)

\* C7: after an insertion of return tracks at a valid return index into a
\* document whose SendPreBool entries have their index as Id, every
\* SendPreBool entry's Id equals its index in SendsPre.
SendPreIdsPositional ==
    (/\ IsInsert /\ Completed /\ call.returns # <<>>
     /\ IdsPositional(pre.dst.sendsPre))
        => IdsPositional(dst.sendsPre)

\* A return track has been inserted before an existing return track.
SendPreIdsWitness ==
    /\ IsInsert /\ Completed /\ call.returns # <<>>
    /\ call.return_index < NumReturn(pre.dst)
    /\ Len(dst.sendsPre) = Len(pre.dst.sendsPre) + Len(call.returns)

\* The insertion came as far as the send lists: it raised none of the
\* exceptions of the index check and of the three id updates.
ReachedSends ==
    call.err \notin {ErrIndex, ErrUnknownPointee, ErrReturnGroup,
                     ErrUnknownGroup, ErrLinked}

\* A send holder at a position >= index whose Id is not its position.
MisnumberedFrom(doc, index) ==
    \E i \in 1..Len(doc.tracks) : \E p \in 1..Len(doc.tracks[i].sends) :
        p - 1 >= index /\ doc.tracks[i].sends[p].id # p - 1

\* C8: after an insertion into a document whose send holders have their
\* position as Id, every send holder of every mixer track, old or new, has
\* its index in its send list as Id; and an insertion of a column before a
\* holder whose Id is not its position raises the assertion fault of
\* insert_send.
HolderIdsPositional ==
    /\ (IsInsert /\ HoldersPositional(pre.dst)) => HoldersPositional(dst)
    /\ (/\ IsInsert /\ ReachedSends /\ call.returns # <<>>
        /\ MisnumberedFrom(pre.dst, call.return_index))
           => call.err = ErrAssertion

\* A column has been inserted before the columns of a document with two
\* return tracks, and new tracks have come in with it.
HolderIdsWitness ==
    /\ call.op = "insert_tracks" /\ Completed
    /\ call.returns # <<>> /\ call.primary # <<>> /\ call.return_index = 0
    /\ NumReturn(pre.dst) = 2 /\ HoldersPositional(pre.dst)
    /\ Len(dst.tracks) = Len(pre.dst.tracks) + 2
    /\ \A i \in 1..Len(dst.tracks) : Len(dst.tracks[i].sends) = 3
    /\ HoldersPositional(dst)

IndexOutOfRange ==
    \/ call.primary_index < 0 \/ call.primary_index > NumPrimary(pre.dst)
    \/ call.return_index < 0 \/ call.return_index > NumReturn(pre.dst)

\* C10: insert_tracks raises the range error exactly when primary_index is
\* outside 0..count(primary_tracks) or return_index is outside
\* 0..count(return_tracks), whether or not the batch of the index is empty,
\* and then the document (track list, send lists, SendsPre, main track,
\* NextPointeeId) is as it was before the call.
RangeErrorBeforeMutation ==
    IsInsert => /\ IndexOutOfRange <=> call.err = ErrIndex
                /\ call.err = ErrIndex => dst = pre.dst

\* insert_tracks was given primary tracks at a valid index, no return tracks
\* and a return index above the number of return tracks, and has raised.
RangeErrorWitness ==
    /\ call.op = "insert_tracks" /\ call.err = ErrIndex
    /\ call.primary # <<>> /\ call.primary_index \in 0..NumPrimary(pre.dst)
    /\ call.returns = <<>> /\ call.return_index = NumReturn(pre.dst) + 1
    /\ dst = pre.dst

\* The greatest track id of the document the last call was made on, or 0.
MaxTrackId == SetMax({0} \cup Range(TrackIds(pre.dst)))

\* The id the k-th track of the batch (primary tracks first, then return
\* tracks) is to get.
FreshId(k) == MaxTrackId + k

\* The tracks of the batch in batch order, as they were in the source set.
GivenTracks == GivenPrimary \o GivenReturns

\* The 1-based position in the track list of the document, after a completed
\* insertion, of the k-th track of the batch.
PlaceOf(k) ==
    IF k <= Len(GivenPrimary)
    THEN call.primary_index + k
    ELSE NumPrimary(pre.dst) + call.return_index + k

\* The 1-based position before the call of the track at position p after a
\* completed insertion, or 0 for a track of the batch.
OldPlace(p) ==
    IF p <= call.primary_index THEN p
    ELSE IF p <= call.primary_index + Len(GivenPrimary) THEN 0
    ELSE IF p <= Len(GivenPrimary) + NumPrimary(pre.dst) + call.return_index
    THEN p - Len(GivenPrimary)
    ELSE IF p <= Len(GivenTracks) + NumPrimary(pre.dst) + call.return_index
    THEN 0
    ELSE p - Len(GivenTracks)

\* C11: a completed insertion gives the incoming mixer tracks the ids m+1,
\* m+2, ... in batch order (primary tracks first, then return tracks), m
\* being the greatest track id of the document before the call, or 0; the
\* tracks the document had keep their ids, and the main track has no id.
FreshSequentialIds ==
    (IsInsert /\ Completed) =>
        /\ Len(dst.tracks) = Len(pre.dst.tracks) + Len(GivenTracks)
        /\ \A k \in 1..Len(GivenTracks) : dst.tracks[PlaceOf(k)].id = FreshId(k)
        /\ \A p \in 1..Len(dst.tracks) :
              OldPlace(p) # 0 => dst.tracks[p].id = pre.dst.tracks[OldPlace(p)].id
        /\ "id" \notin DOMAIN dst.main

\* One return track has been inserted into a document with the track ids 1,
\* 2, 3 and has the id 4.
FreshSequentialIdsWitness ==
    /\ IsInsert /\ Completed
    /\ TrackIds(pre.dst) = <<1, 2, 3>>
    /\ call.primary = <<>> /\ Len(call.returns) = 1 /\ call.return_index = 0
    /\ TrackIds(dst) = <<1, 2, 4, 3>>

\* The batch position of the track of the batch with the source id id (the
\* last one, if several have it), or 0.
BatchPlace(id) ==
    IF \E j \in 1..Len(GivenTracks) : GivenTracks[j].id = id
    THEN SetMax({j \in 1..Len(GivenTracks) : GivenTracks[j].id = id})
    ELSE 0

\* C12: after a completed insertion of a batch with a group track and a
\* child whose TrackGroupId is the group's id in the source set, the child's
\* TrackGroupId is the id the group was given, whatever the order of the two
\* in the batch and whether or not the new ids overlap the old ones; a track
\* with TrackGroupId -1 keeps -1.
GroupIdsFollow ==
    (IsInsert /\ Completed) =>
        \A k \in 1..Len(GivenTracks) :
            /\ GivenTracks[k].group = -1 => dst.tracks[PlaceOf(k)].group = -1
            /\ GivenTracks[k].group >= 0 =>
                 /\ BatchPlace(GivenTracks[k].group) # 0
                 /\ dst.tracks[PlaceOf(k)].group
                      = dst.tracks[PlaceOf(BatchPlace(GivenTracks[k].group))].id

\* A child has been inserted before its group, and the ids the two were given
\* are the ids the two had in the source set, exchanged.
GroupIdsFollowWitness ==
    /\ IsInsert /\ Completed
    /\ Len(GivenPrimary) = 2
    /\ GivenPrimary[1].group = GivenPrimary[2].id
    /\ GivenPrimary[2].tag = "GroupTrack"
    /\ FreshId(1) = GivenPrimary[1].id /\ FreshId(2) = GivenPrimary[2].id
    /\ dst.tracks[PlaceOf(1)].group = FreshId(2)

\* A primary track of the batch is in a group that is no track of the batch.
GroupOutsideBatch ==
    \E k \in 1..Len(GivenPrimary) :
        GivenPrimary[k].group >= 0 /\ BatchPlace(GivenPrimary[k].group) = 0

\* The send lists of the tracks of a document.
SendLists(doc) == [i \in 1..Len(doc.tracks) |-> doc.tracks[i].sends]

\* The call has spliced no track and changed no send list and no SendsPre
\* entry of the document.
NothingInserted ==
    /\ [i \in 1..Len(dst.tracks) |-> [dst.tracks[i] EXCEPT !.sends = <<>>]]
         = [i \in 1..Len(pre.dst.tracks) |-> [pre.dst.tracks[i] EXCEPT !.sends = <<>>]]
    /\ SendLists(dst) = SendLists(pre.dst)
    /\ dst.sendsPre = pre.dst.sendsPre

\* C13: an insertion (with valid indices) of a batch with a primary track
\* whose TrackGroupId is non-negative and is the source id of no mixer track
\* of the batch raises a ValueError, for the group or for an unknown pointee
\* found before it, and splices no track and changes no send list and no
\* SendsPre entry of the document.
UnknownGroupRejected ==
    (IsInsert /\ ~IndexOutOfRange /\ GroupOutsideBatch) =>
        /\ call.err \in {ErrUnknownGroup, ErrUnknownPointee}
        /\ NothingInserted

\* The child of a group has been given without its group, and the call has
\* raised for the group, after it wrote the pointee counter back.
UnknownGroupRejectedWitness ==
    /\ IsInsert /\ GroupOutsideBatch
    /\ call.err = ErrUnknownGroup
    /\ NothingInserted
    /\ dst.next > pre.dst.next

\* The main track the last call was given, if any.
GivenMain == IF call.main THEN <<pre.src.main>> ELSE <<>>

\* A return track of the batch has a group id, or a track given has a linked
\* track group.
GroupedReturnOrLinked ==
    \/ \E k \in 1..Len(GivenReturns) : GivenReturns[k].group >= 0
    \/ \E k \in 1..Len(GivenTracks \o GivenMain) :
          (GivenTracks \o GivenMain)[k].linked # -1

ExpectedTarget(target) ==
    [i \in 1..Len(target) |->
        IF target[i].ref /\ BatchPlace(target[i].num) # 0
        THEN [target[i] EXCEPT !.num = FreshId(BatchPlace(target[i].num))]
        ELSE target[i]]

GivenElements == GivenTracks \o GivenMain

\* A PointeeId of the batch has the id of no pointee definition of the batch.
UnknownPointeeGiven ==
    \E k \in 1..Len(GivenElements) :
        \E i \in 1..Len(GivenElements[k].refs) :
            \A j \in 1..Len(GivenElements) :
                GivenElements[k].refs[i] \notin Range(DefIds(GivenElements[j]))

\* C16: an insertion (with valid indices) of a batch with a PointeeId whose
\* value is the id of no pointee definition of the batch raises the
\* ValueError of _update_pointee_ids and leaves the document entirely as it
\* was, NextPointeeId included.
UnknownPointeeRejected ==
    (IsInsert /\ ~IndexOutOfRange /\ UnknownPointeeGiven) =>
        /\ call.err = ErrUnknownPointee
        /\ dst = pre.dst

\* A track with pointee definitions and with a reference to a pointee of no
\* track given has been given with another track, and the call has raised
\* with the counter where it was.
UnknownPointeeRejectedWitness ==
    /\ IsInsert /\ call.err = ErrUnknownPointee
    /\ UnknownPointeeGiven
    /\ Len(GivenElements) >= 2
    /\ \A k \in 1..Len(GivenElements) : DefIds(GivenElements[k]) # <<>>
    /\ dst.next = pre.dst.next
    /\ dst = pre.dst

\* Every TrackGroupId of the document is -1 or the id of a group track of
\* the document.
GroupsPresent(doc) ==
    \A i \in 1..Len(doc.tracks) :
        \/ doc.tracks[i].group = -1
        \/ \E j \in 1..Len(doc.tracks) :
              /\ doc.tracks[j].tag = "GroupTrack"
              /\ doc.tracks[j].id = doc.tracks[i].group

\* C17: after a call of insert_tracks, delete_primary_track or
\* delete_return_track that completes on a document in which every
\* TrackGroupId is -1 or the id of a group track of the document, every
\* TrackGroupId of the document is -1 or the id of a group track of the
\* document.
GroupIdsResolve ==
    (call.op # "init" /\ Completed /\ GroupsPresent(pre.dst)) => GroupsPresent(dst)

\* A group track that has a child in the document has been deleted.
GroupDeletedWitness ==
    /\ call.op = "delete_primary_track" /\ Completed
    /\ \E i, j \in 1..Len(pre.dst.tracks) :
          /\ pre.dst.tracks[j].group = pre.dst.tracks[i].id
          /\ pre.dst.tracks[i].tag = "GroupTrack"
          /\ \A p \in 1..Len(dst.tracks) : dst.tracks[p].id # pre.dst.tracks[i].id
    /\ GroupsPresent(pre.dst)

\* C18: delete_primary_track(i), for 0 <= i < count(primary_tracks),
\* completes and removes the i-th primary track and nothing else: the other
\* tracks, their order and their send lists, SendsPre, the main track and
\* NextPointeeId are as they were.
DeletePrimaryRemovesOne ==
    (/\ call.op = "delete_primary_track"
     /\ call.index >= 0 /\ call.index < NumPrimary(pre.dst))
        => /\ Completed
           /\ dst.tracks = SubSeq(pre.dst.tracks, 1, call.index)
                           \o SubSeq(pre.dst.tracks, call.index + 2,
                                     Len(pre.dst.tracks))
           /\ dst.sendsPre = pre.dst.sendsPre
           /\ dst.main = pre.dst.main
           /\ dst.next = pre.dst.next

\* The second of two primary tracks has been deleted from a document with a
\* return track.
DeletePrimaryWitness ==
    /\ call.op = "delete_primary_track" /\ Completed
    /\ call.index = 1 /\ NumPrimary(pre.dst) = 2 /\ NumReturn(pre.dst) >= 1
    /\ Len(dst.tracks) = Len(pre.dst.tracks) - 1

\* The pointee ids of the send holders at the 0-based positions from..to-1
\* of a send list.
ColumnIds(sends, from, to) ==
    UNION {{sends[j].send.auto, sends[j].send.mod}
              : j \in {j \in 1..Len(sends) : from < j /\ j <= to}}

\* The pointee ids a completed insertion has handed out: those of the
\* inserted tracks, those of the blank sends in the columns added to the
\* tracks the document had, and those of the new main track.
HandedOut ==
    UNION {Range(DefIds(dst.tracks[PlaceOf(k)])) : k \in 1..Len(GivenTracks)}
    \cup UNION {ColumnIds(dst.tracks[p].sends, call.return_index,
                          call.return_index + Len(GivenReturns))
                   : p \in {p \in 1..Len(dst.tracks) : OldPlace(p) # 0}}
    \cup (IF call.main THEN Range(DefIds(dst.main)) ELSE {})

\* C19: no call, completed or not, makes NextPointeeId less than it was, and
\* every pointee id an insertion hands out (to a remapped definition or to a
\* new blank send) is at least the NextPointeeId the document had before the
\* insertion.
CounterMonotonic ==
    /\ dst.next >= pre.dst.next
    /\ IsInsert =>
          \A id \in Range(AllDefIds(dst)) \ Range(AllDefIds(pre.dst)) :
              id >= pre.dst.next
    /\ (IsInsert /\ Completed) => \A id \in HandedOut : id >= pre.dst.next

\* A completed insertion has remapped definitions of incoming tracks and of a
\* main track and has created blank sends in old and in new tracks.
CounterMonotonicWitness ==
    /\ IsInsert /\ Completed /\ call.main
    /\ call.primary # <<>> /\ call.returns # <<>>
    /\ Len(pre.dst.tracks) >= 2 /\ NumReturn(pre.dst) >= 1
    /\ Cardinality(HandedOut) >= 12
    /\ dst.next >= pre.dst.next + Cardinality(HandedOut)

\* The bytes are as write writes a document: the declaration it writes, the
\* elements as ElementTree writes them, and one line break after the end tag
\* of the root.
NativeForm(bytes) ==
    /\ Len(bytes) >= 3
    /\ Head(bytes) = WrittenProlog
    /\ bytes[Len(bytes)] = "\n" /\ bytes[Len(bytes) - 1] # "\n"
    /\ \A i \in 1..Len(bytes) : bytes[i] \in EmptyStyles => bytes[i] = "<Tracks />"
    /\ \A i \in 1..(Len(bytes) - 1) :
          ~(bytes[i] = "<LiveSet>" /\ bytes[i + 1] = "</LiveSet>")

SourceSendIndex(j) == ReturnTracksOf(pre.src)[call.returns[j]].send_index

\* The pointee ids the counter held when the first blank send of the call
\* was created: the ids from there on are new.
FirstBlankId == pre.dst.next + Len(Flatten([k \in 1..Len(GivenElements) |-> DefIds(GivenElements[k])]))

\* A holder as add_blank_send makes it: not enabled, at the minimum value,
\* with two ids taken from the counter one after the other.
IsBlankHolder(h) ==
    /\ h.enabled = FALSE
    /\ h.send.manual = MinValueStr
    /\ h.send.auto >= FirstBlankId
    /\ h.send.mod = h.send.auto + 1

\* The holder carries the manual value and the enabled flag of the source
\* holder.
CarriesOver(h, source) ==
    /\ h.send.manual = source.send.manual
    /\ h.enabled = source.enabled

\* The send list of an inserted track (sends), given the list the track had
\* in the source set (source): the holders for the return tracks of the
\* batch at return_index on, blank holders elsewhere.
SendListRebuilt(sends, source) ==
    /\ Len(sends) = NumReturn(pre.dst) + Len(call.returns)
    /\ \A p \in 1..Len(sends) :
          IF call.return_index < p /\ p <= call.return_index + Len(call.returns)
          THEN CarriesOver(sends[p],
                           source[SourceSendIndex(p - call.return_index) + 1])
          ELSE IsBlankHolder(sends[p])

\* C21: after a completed insertion at return index r with the incoming
\* return tracks q_0..q_(k-1), the send list of every incoming mixer track
\* has, in the order of the return tracks of the document, at position r+j
\* a holder with the manual value and the enabled flag of the holder the
\* track had in the source set at the send index of q_j, and at every other
\* position a new blank holder (not enabled, minimum value, two new pointee
\* ids); no holder for a return track outside the batch is left.
IncomingSendsCarried ==
    (IsInsert /\ Completed) =>
        \A k \in 1..Len(GivenTracks) :
            SendListRebuilt(dst.tracks[PlaceOf(k)].sends, GivenTracks[k].sends)

\* A primary track has been inserted with the second return track of its
\* set, after the return track of the document: its second holder is the
\* one it had for that return track, which was not blank, and its holder for
\* the first return track of its set, not blank either, is gone.
IncomingSendsCarriedWitness ==
    /\ IsInsert /\ Completed
    /\ Len(call.primary) = 1 /\ call.returns = <<2>> /\ call.return_index = 1
    /\ NumReturn(pre.dst) = 1
    /\ GivenPrimary[1].sends[1].send.manual # MinValueStr
    /\ GivenPrimary[1].sends[2].send.manual # MinValueStr
    /\ dst.tracks[PlaceOf(1)].sends[1].send.manual = MinValueStr
    /\ dst.tracks[PlaceOf(1)].sends[2].send.manual = GivenPrimary[1].sends[2].send.manual
    /\ Len(dst.tracks[PlaceOf(1)].sends) = 2

\* The position before the call of what is at the 1-based position q of a
\* send list or of SendsPre after k columns were inserted at index: 0 for
\* the new columns.
OldColumn(q, index, k) ==
    IF q <= index THEN q ELSE IF q <= index + k THEN 0 ELSE q - k

\* A send list of a track the document had (sends), given the list the track
\* had before the call (old): blank holders in the new columns, the old
\* holders with their send and their flag around them, in their order.
SendListWidened(sends, old) ==
    /\ Len(sends) = Len(old) + Len(call.returns)
    /\ \A q \in 1..Len(sends) :
          IF OldColumn(q, call.return_index, Len(call.returns)) = 0
          THEN IsBlankHolder(sends[q])
          ELSE /\ sends[q].send
                    = old[OldColumn(q, call.return_index, Len(call.returns))].send
               /\ sends[q].enabled
                    = old[OldColumn(q, call.return_index, Len(call.returns))].enabled

\* SendsPre after the call: the send-pre values of the incoming return
\* tracks in the new columns, in batch order, the old values around them.
SendsPreWidened ==
    /\ Len(dst.sendsPre) = Len(pre.dst.sendsPre) + Len(call.returns)
    /\ \A q \in 1..Len(dst.sendsPre) :
          IF OldColumn(q, call.return_index, Len(call.returns)) = 0
          THEN dst.sendsPre[q].value
                 = ReturnTracksOf(pre.src)[call.returns[q - call.return_index]].send_pre
          ELSE dst.sendsPre[q].value
                 = pre.dst.sendsPre[OldColumn(q, call.return_index,
                                              Len(call.returns))].value

\* The send_pre the return_tracks property derives after the call: for a
\* return track the document had the value it derived before, for an
\* inserted one the value the track had in the source set.
DerivedSendPreKept ==
    \A q \in 1..NumReturn(dst) :
        IF OldColumn(q, call.return_index, Len(call.returns)) = 0
        THEN ReturnTracksOf(dst)[q].send_pre
               = ReturnTracksOf(pre.src)[call.returns[q - call.return_index]].send_pre
        ELSE ReturnTracksOf(dst)[q].send_pre
               = ReturnTracksOf(pre.dst)[OldColumn(q, call.return_index,
                                                   Len(call.returns))].send_pre

\* C22: after a completed insertion of k return tracks at return index r
\* every mixer track the document had has k blank holders more, at the
\* positions r..r+k-1, its old holders keeping their send content, their
\* flag and their order; SendsPre has the send-pre values of the incoming
\* return tracks at r..r+k-1 in batch order; and the derived send_pre of
\* every return track the document had is as before, that of every inserted
\* return track the value it had in the source set.
ExistingSendsWidened ==
    (IsInsert /\ Completed) =>
        /\ \A p \in 1..Len(dst.tracks) :
              OldPlace(p) # 0 =>
                 SendListWidened(dst.tracks[p].sends,
                                 pre.dst.tracks[OldPlace(p)].sends)
        /\ SendsPreWidened
        /\ DerivedSendPreKept

\* The two return tracks of a source set with different send-pre values have
\* been inserted, the second before the first, between the two return tracks
\* of a document.
ExistingSendsWidenedWitness ==
    /\ IsInsert /\ Completed
    /\ call.returns = <<2, 1>> /\ call.return_index = 1
    /\ NumReturn(pre.dst) = 2
    /\ ReturnTracksOf(pre.src)[1].send_pre # ReturnTracksOf(pre.src)[2].send_pre
    /\ [q \in 1..4 |-> ReturnTracksOf(dst)[q].send_pre]
         = << ReturnTracksOf(pre.dst)[1].send_pre,
              ReturnTracksOf(pre.src)[2].send_pre,
              ReturnTracksOf(pre.src)[1].send_pre,
              ReturnTracksOf(pre.dst)[2].send_pre >>
    /\ \A p \in 1..Len(dst.tracks) : Len(dst.tracks[p].sends) = 4

\* What insert_tracks leaves of a track as it is: its tag, its linked track
\* group, the numbers of its pointees and references and the shape of its
\* routing targets.
TrackShape(t) ==
    [tag |-> t.tag, linked |-> t.linked, pointees |-> Len(t.pointees),
     refs |-> Len(t.refs),
     routing |-> [r \in 1..Len(t.routing) |->
                     [i \in 1..Len(t.routing[r]) |-> t.routing[r][i].text]]]

\* t is the copy insert_tracks has made of the k-th track of the batch
\* (given): another element, of the same shape, with the k-th fresh id.
IsCopyOf(t, given, k) ==
    /\ t.node = 0
    /\ TrackShape(t) = TrackShape(given)
    /\ t.id = FreshId(k)

\* t is the track old of the document; its send list may have new columns.
SameTrack(t, old) == [t EXCEPT !.sends = <<>>] = [old EXCEPT !.sends = <<>>]

\* The list now is the list old with the copies of the batch at index, in
\* batch order; before is the number of tracks of the batch that come before
\* this batch.
SplicedList(now, old, batch, index, before) ==
    /\ Len(now) = Len(old) + Len(batch)
    /\ \A q \in 1..Len(now) :
          IF OldColumn(q, index, Len(batch)) = 0
          THEN IsCopyOf(now[q], batch[q - index], before + q - index)
          ELSE SameTrack(now[q], old[OldColumn(q, index, Len(batch))])

\* C23: after a completed insert_tracks with the primary batch P at
\* primary_index p and the return batch R at return_index r, the primary
\* tracks of the document are old_primary[0..p), the copies of P in batch
\* order, old_primary[p..), and its return tracks are old_return[0..r), the
\* copies of R in batch order, old_return[r..): no track the document had
\* is removed, duplicated or moved, also when both batches come in one call.
TracksSpliced ==
    (IsInsert /\ Completed) =>
        /\ SplicedList(PrimaryTracksOf(dst), PrimaryTracksOf(pre.dst),
                       GivenPrimary, call.primary_index, 0)
        /\ SplicedList([q \in 1..NumReturn(dst) |-> ReturnTracksOf(dst)[q].element],
                       [q \in 1..NumReturn(pre.dst) |->
                           ReturnTracksOf(pre.dst)[q].element],
                       GivenReturns, call.return_index, Len(GivenPrimary))

\* One call has inserted a primary track between the two primary tracks of
\* a document and a return track before its return track.
TracksSplicedWitness ==
    /\ call.op = "insert_tracks" /\ Completed
    /\ Len(call.primary) = 1 /\ call.primary_index = 1
    /\ Len(call.returns) = 1 /\ call.return_index = 0
    /\ NumPrimary(pre.dst) = 2 /\ NumReturn(pre.dst) = 1
    /\ TrackIds(dst) = << pre.dst.tracks[1].id, FreshId(1), pre.dst.tracks[2].id,
                          FreshId(2), pre.dst.tracks[3].id >>
    /\ dst.tracks[4].tag = ReturnTag /\ dst.tracks[2].tag = GivenPrimary[1].tag

\* The places of the main track among the children of the document.
MainPlaces(doc) == {i \in 1..Len(doc.top) : doc.top[i] = MainTag}

\* The k-th element the last call was given, as the call has left its copy
\* in the document: a track of the batch, or the main track.
ResultElement(k) ==
    IF k <= Len(GivenTracks) THEN dst.tracks[PlaceOf(k)] ELSE dst.main

\* The main track of the document is a copy of the main track given, with
\* its pointee ids remapped: its definitions have the ids that follow those
\* of the tracks of the batch, from the counter of the document on, and a
\* reference to a definition of an element given has the id that definition
\* has now.
MainIsRemappedCopy ==
    /\ dst.main.tag = MainTag /\ dst.main.node = 0
    /\ dst.main.linked = GivenMain[1].linked
    /\ dst.main.pointees
         = [i \in 1..Len(GivenMain[1].pointees) |->
               pre.dst.next + DefsBefore(GivenElements, Len(GivenElements)) + i - 1]
    /\ Len(dst.main.refs) = Len(GivenMain[1].refs)
    /\ \A i \in 1..Len(GivenMain[1].refs) :
          \A k \in 1..Len(GivenElements) :
              \A n \in 1..Len(GivenElements[k].pointees) :
                  GivenElements[k].pointees[n] = GivenMain[1].refs[i]
                      => dst.main.refs[i] = ResultElement(k).pointees[n]

\* C24: a completed insert_tracks (or assignment to main_track) with a main
\* track, on a document with a main track, leaves the document with exactly
\* one main track, at the place among the children of the document the old
\* one had, which is a copy of the track given with remapped pointee ids;
\* the tracks the document had are as they were apart from the columns of
\* the return tracks inserted, and an assignment to main_track changes no
\* mixer track, no send list and no SendsPre entry. On a document without a
\* main track the call raises: "Live set has no main track", if nothing
\* before it.
MainTrackReplaced ==
    /\ (IsInsert /\ call.main /\ Completed) =>
          /\ pre.dst.main.tag = MainTag
          /\ Cardinality(MainPlaces(dst)) = 1
          /\ MainPlaces(dst) = MainPlaces(pre.dst)
          /\ dst.top = pre.dst.top
          /\ MainIsRemappedCopy
          /\ \A p \in 1..Len(dst.tracks) :
                OldPlace(p) # 0 =>
                   SameTrack(dst.tracks[p], pre.dst.tracks[OldPlace(p)])
          /\ Len(dst.sendsPre) = Len(pre.dst.sendsPre) + Len(call.returns)
          /\ call.op = "main_track" =>
                /\ dst.tracks = pre.dst.tracks
                /\ dst.sendsPre = pre.dst.sendsPre
    /\ (IsInsert /\ call.main /\ pre.dst.main.tag = NoMain.tag) =>
          /\ ~Completed
          /\ ReachedSends => call.err = ErrNoMain

\* A main track that refers to a pointee of a group track has been given
\* with the group track, and is now the main track of the document, at the
\* place of the old one, referring to the pointee of the copy of the group.
MainTrackReplacedWitness ==
    /\ call.op = "insert_tracks" /\ call.main /\ Completed
    /\ Len(GivenPrimary) = 1
    /\ GivenMain[1].refs[2] = GivenPrimary[1].pointees[1]
    /\ dst.main.refs[2] = dst.tracks[PlaceOf(1)].pointees[1]
    /\ dst.main.refs[2] # GivenMain[1].refs[2]
    /\ dst.main # pre.dst.main
    /\ dst.top[3] = MainTag /\ pre.dst.top[3] = MainTag

====
